---- MODULE Spec2Model ----
(***************************************************************************)
(* QR-Code-Node-API: the request-admission pipelines of the two services.  *)
(*                                                                         *)
(*   Variant A  Express service: POST /generate-qr behind the global       *)
(*              limiter, the JSON body parser, the generation limiter and  *)
(*              the token check; GET /health and GET / behind the global   *)
(*              limiter only.                                              *)
(*   Variant B  Hono worker: GET /qr behind referrerCheck; GET /health.    *)
(*                                                                         *)
(* Text that the code inspects character by character (a query-string      *)
(* size, the Referer header, ALLOWED_DOMAINS) is a sequence of one-        *)
(* character strings.  A value that may be absent is <<>> when absent and  *)
(* <<v>> when present.                                                     *)
(***************************************************************************)
EXTENDS Integers, Sequences, FiniteSets, Bags, TLC

VARIABLES
    env,        \* process.env (Variant A) and c.env (Variant B), fixed at startup
    now,        \* Date.now(), in milliseconds
    hits,       \* hits[scope][client]: totalHits of the limiter's store entry
    resetTime,  \* resetTime[scope][client]: when that entry's window ends
    resp,       \* the request handled last and the response written for it
    flight,     \* the requests on open connections, each with the stage it waits at
    seen,       \* seen[scope][client][t]: requests the scope's limiter met at tick t
    arrived     \* requests accepted on the connections so far

vars == <<env, now, hits, resetTime, resp, flight, seen, arrived>>

\* The connections and their history.
conc == <<flight, seen, arrived>>

(***************************************************************************)
(* Bounds of the model.                                                    *)
(***************************************************************************)
\* Ticks of the clock a behaviour may take.
MaxTicks == 4
\* Requests one client sends in a window under the specification Spec, which
\* explores the request fields and not the request counts.
MaxReq == 2
\* Requests the second client sends under SpecPair.
MaxOther == 2
\* Requests a client sends beyond a limiter's max before it waits for the
\* window to end, under SpecRate and SpecPair.
MaxOver == 1
\* Connections the Express service has open at once under SpecConc.
MaxInflight == 2
\* Requests accepted on those connections in one behaviour of SpecConc.
MaxArrivals == 2

(***************************************************************************)
(* Optional values and JavaScript's || on them.                            *)
(***************************************************************************)
None == <<>>

Some(v) == <<v>>

Opt(S) == {None} \cup {Some(v) : v \in S}

\* a || d for a string-valued a: undefined and "" are falsy.
OrStr(a, d) == IF a = None \/ a[1] = "" THEN d ELSE a[1]

\* a || d for a number-valued a: undefined and 0 are falsy.
OrNum(a, d) == IF a = None \/ a[1] = 0 THEN d ELSE a[1]

\* a || d for a text (character-sequence) a: undefined and '' are falsy.
OrText(a, d) == IF a = None \/ a[1] = <<>> THEN d ELSE a[1]

(***************************************************************************)
(* String functions of the JavaScript runtime, on character sequences.     *)
(***************************************************************************)
WhiteSpace == {" ", "\t", "\n", "\r"}

RECURSIVE TrimStart(_)
TrimStart(s) ==
    IF s # <<>> /\ Head(s) \in WhiteSpace THEN TrimStart(Tail(s)) ELSE s

RECURSIVE TrimEnd(_)
TrimEnd(s) ==
    IF s # <<>> /\ s[Len(s)] \in WhiteSpace
    THEN TrimEnd(SubSeq(s, 1, Len(s) - 1))
    ELSE s

\* String.prototype.trim
Trim(s) == TrimEnd(TrimStart(s))

\* String.prototype.includes
Includes(s, t) ==
    \E i \in 0..(Len(s) - Len(t)) : SubSeq(s, i + 1, i + Len(t)) = t

\* String.prototype.split(','): ''.split(',') is [''], one empty entry.
RECURSIVE Split(_)
Split(s) ==
    IF \A i \in 1..Len(s) : s[i] # ","
    THEN <<s>>
    ELSE LET i == CHOOSE k \in 1..Len(s) :
                      s[k] = "," /\ \A j \in 1..(k - 1) : s[j] # ","
         IN  <<SubSeq(s, 1, i - 1)>> \o Split(SubSeq(s, i + 1, Len(s)))

DecDigits == <<"0", "1", "2", "3", "4", "5", "6", "7", "8", "9">>

HexLower == DecDigits \o <<"a", "b", "c", "d", "e", "f">>

HexUpper == DecDigits \o <<"A", "B", "C", "D", "E", "F">>

\* The value of character ch as a digit of the radix, or -1.
DigitValue(ch, radix) ==
    IF \E i \in 1..radix : HexLower[i] = ch
    THEN (CHOOSE i \in 1..radix : HexLower[i] = ch) - 1
    ELSE IF \E i \in 1..radix : HexUpper[i] = ch
         THEN (CHOOSE i \in 1..radix : HexUpper[i] = ch) - 1
         ELSE -1

\* The number the longest prefix of digits of s denotes, continuing from acc;
\* None when s starts with no digit and nothing was read yet.
RECURSIVE ParseDigits(_, _, _, _)
ParseDigits(s, radix, acc, any) ==
    IF s # <<>> /\ DigitValue(Head(s), radix) >= 0
    THEN ParseDigits(Tail(s), radix, acc * radix + DigitValue(Head(s), radix), TRUE)
    ELSE IF any THEN Some(acc) ELSE None

\* parseInt(s) with no radix: leading white space is skipped, a sign is read,
\* a 0x or 0X prefix selects base 16, digits are read up to the first
\* character that is none, and the rest is ignored.  None is NaN.
parseInt(s) ==
    LET t     == TrimStart(s)
        neg   == t # <<>> /\ Head(t) = "-"
        u     == IF t # <<>> /\ Head(t) \in {"+", "-"} THEN Tail(t) ELSE t
        hex   == Len(u) >= 2 /\ u[1] = "0" /\ u[2] \in {"x", "X"}
        body  == IF hex THEN SubSeq(u, 3, Len(u)) ELSE u
        n     == ParseDigits(body, IF hex THEN 16 ELSE 10, 0, FALSE)
    IN  IF n = None THEN None ELSE IF neg THEN Some(0 - n[1]) ELSE n

(***************************************************************************)
(* Deployment configuration.                                               *)
(***************************************************************************)
\* process.env.API_TOKEN || 'this_is_a_dev_token'
API_TOKEN == OrStr(env.API_TOKEN, "this_is_a_dev_token")

\* process.env.NODE_ENV === 'development'
IsDevelopment == env.NODE_ENV = Some("development")

(***************************************************************************)
(* Responses.  A body is a sequence of fields, each <<key, part, ...>>: a  *)
(* JSON member, or the parts a text body is concatenated from.  stages     *)
(* lists the middleware and handlers that ran for the request, in order;   *)
(* encoder lists the calls made to the QR library and threw tells whether  *)
(* the call threw; sent counts the responses written.                      *)
(***************************************************************************)
Reply(status, ctype, body, stage) ==
    [status |-> status, ctype |-> ctype, body |-> body,
     stages |-> <<stage>>, encoder |-> <<>>, threw |-> FALSE, sent |-> 1]

\* The stage ran, called next(), and r is what the rest of the chain did.
Via(stage, r) == [r EXCEPT !.stages = <<stage>> \o @]

JSON == "application/json"

TEXT == "text/plain"

TooManyRequests == <<"error", "Too many requests, please try again later.">>

GenerationLimitReached ==
    <<"error", "QR code generation limit reached. Please try again later.">>

UnauthorizedMsg ==
    <<"error", "Unauthorized. Invalid or missing authentication token.">>

NoDataMsg ==
    <<"error", "No data provided. Please include \"data\" in your JSON body.">>

\* The message of the exception the QR library throws.
EncoderErrorText == "<message of the exception thrown by the encoder>"

(***************************************************************************)
(* Variant A: the rate limiters (express-rate-limit, one store each).      *)
(***************************************************************************)
Scopes == {"global", "qr"}

\* windowMs: 15 * 60 * 1000
limiterWindowMs == 15 * 60 * 1000

limiterMax == 100

\* windowMs: 5 * 60 * 1000
qrLimiterWindowMs == 5 * 60 * 1000

qrLimiterMax == 30

WindowMs(scope) == IF scope = "global" THEN limiterWindowMs ELSE qrLimiterWindowMs

\* Mutant: one key for every client (the entry of Client1's address).
Increment_sharedKey(scope, c) ==
    IF resetTime[scope]["10.0.0.1"] <= now
    THEN [totalHits |-> 1, resetTime |-> now + WindowMs(scope)]
    ELSE [totalHits |-> hits[scope]["10.0.0.1"] + 1,
          resetTime |-> resetTime[scope]["10.0.0.1"]]

\* Mutant: a request met while the client is over the max is rejected
\* without being counted.
Increment_uncountedWhenOver(scope, c) ==
    IF resetTime[scope][c] <= now
    THEN [totalHits |-> 1, resetTime |-> now + WindowMs(scope)]
    ELSE IF hits[scope][c] > (IF scope = "global" THEN limiterMax ELSE qrLimiterMax)
    THEN [totalHits |-> hits[scope][c], resetTime |-> resetTime[scope][c]]
    ELSE [totalHits |-> hits[scope][c] + 1, resetTime |-> resetTime[scope][c]]

\* The store's increment for the client's key (req.ip): an entry whose window
\* has ended (or a client not seen before) starts a new window at zero, and
\* the hit is counted.
Increment(scope, c) ==
    IF resetTime[scope][c] <= now
    THEN [totalHits |-> 1, resetTime |-> now + WindowMs(scope)]
    ELSE [totalHits |-> hits[scope][c] + 1, resetTime |-> resetTime[scope][c]]

\* Mutant: totalHits >= max rejects.
limiter_offByOne(totalHits) == totalHits < limiterMax

\* The limiter's decision on the count the store returned.
limiter(totalHits) == totalHits <= limiterMax

qrLimiter(totalHits) == totalHits <= qrLimiterMax

(***************************************************************************)
(* Variant A: authentication, the generation handler, the error handler.   *)
(***************************************************************************)
\* next(error): the response for exception text message.
errorHandler(message) ==
    Reply(500, JSON,
          << <<"error", "Internal server error">>,
             <<"details", IF IsDevelopment THEN message ELSE "Something went wrong">> >>,
          "errorHandler")

\* The options object passed to QRCode.toBuffer.
QRCodeOptions(body) ==
    [errorCorrectionLevel |-> OrStr(body.errorCorrectionLevel, "M"),
     type    |-> "png",
     quality |-> "0.92",
     margin  |-> 1,
     color   |-> [dark  |-> OrStr(body.darkColor, "#000000"),
                  light |-> OrStr(body.lightColor, "#ffffff")],
     width   |-> OrNum(body.width, 300)]

\* Mutant: data === undefined in place of !data.
generateQr_undefinedOnly(body, enc) ==
    IF body.data = None
    THEN Reply(400, JSON, <<NoDataMsg>>, "generateQr")
    ELSE LET call == [fn |-> "QRCode.toBuffer", content |-> body.data[1],
                      options |-> QRCodeOptions(body)]
             done == IF enc = "throw"
                     THEN Via("generateQr", errorHandler(EncoderErrorText))
                     ELSE Reply(200, "image/png", << <<"image", "png">> >>, "generateQr")
         IN  [done EXCEPT !.encoder = <<call>>, !.threw = (enc = "throw")]

\* The async handler of POST /generate-qr; enc is what the QR library does
\* with the call: "ok" or "throw".
generateQr(body, enc) ==
    IF body.data = None \/ body.data[1] = ""
    THEN Reply(400, JSON, <<NoDataMsg>>, "generateQr")
    ELSE LET call == [fn |-> "QRCode.toBuffer", content |-> body.data[1],
                      options |-> QRCodeOptions(body)]
             done == IF enc = "throw"
                     THEN Via("generateQr", errorHandler(EncoderErrorText))
                     ELSE Reply(200, "image/png", << <<"image", "png">> >>, "generateQr")
         IN  [done EXCEPT !.encoder = <<call>>, !.threw = (enc = "throw")]

\* Mutant: the token is compared with process.env.API_TOKEN itself, with no
\* fallback and no falsy check.
authenticateRequest_rawEnv(body, enc) ==
    IF body.token # env.API_TOKEN
    THEN Reply(401, JSON, <<UnauthorizedMsg>>, "authenticateRequest")
    ELSE Via("authenticateRequest", generateQr(body, enc))

\* !token || token !== API_TOKEN
authenticateRequest(body, enc) ==
    IF body.token = None \/ body.token[1] = "" \/ body.token[1] # API_TOKEN
    THEN Reply(401, JSON, <<UnauthorizedMsg>>, "authenticateRequest")
    ELSE Via("authenticateRequest", generateQr(body, enc))

\* app.get('/health')
health == Reply(200, JSON, << <<"status", "ok">> >>, "health")

\* app.get('/')
root ==
    Reply(200, TEXT,
          << <<"text", "QR Code Generator API is running. Authorized POST requests to /generate-qr are required.">> >>,
          "root")

\* Mutant: authenticateRequest is registered before qrLimiter.
Route_authFirst(route, body, enc, qrOk) ==
    CASE route = "POST /generate-qr" ->
             IF body.token = None \/ body.token[1] = "" \/ body.token[1] # API_TOKEN
             THEN Reply(401, JSON, <<UnauthorizedMsg>>, "authenticateRequest")
             ELSE IF qrOk
             THEN Via("qrLimiter", authenticateRequest(body, enc))
             ELSE Reply(429, JSON, <<GenerationLimitReached>>, "qrLimiter")
      [] route = "GET /health" -> health
      [] OTHER -> root

\* Mutant: qrLimiter is applied to every route.
Route_qrLimiterEverywhere(route, body, enc, qrOk) ==
    IF ~qrOk
    THEN Reply(429, JSON, <<GenerationLimitReached>>, "qrLimiter")
    ELSE CASE route = "POST /generate-qr" ->
                  Via("qrLimiter", authenticateRequest(body, enc))
           [] route = "GET /health" -> health
           [] OTHER -> root

\* The routes registered after app.use(limiter) and app.use(bodyParser.json()).
Route(route, body, enc, qrOk) ==
    CASE route = "POST /generate-qr" ->
             IF qrOk
             THEN Via("qrLimiter", authenticateRequest(body, enc))
             ELSE Reply(429, JSON, <<GenerationLimitReached>>, "qrLimiter")
      [] route = "GET /health" -> health
      [] OTHER -> root

\* One request to the Express application: the global limiter, the body
\* parser, then the route's own chain.
Request(c, route, body, enc) ==
    LET g     == Increment("global", c)
        q     == Increment("qr", c)
        gOk   == limiter(g.totalHits)
        toQr  == gOk /\ route = "POST /generate-qr"
        r     == IF gOk
                 THEN Via("limiter", Via("bodyParser",
                          Route(route, body, enc, qrLimiter(q.totalHits))))
                 ELSE Reply(429, JSON, <<TooManyRequests>>, "limiter")
    IN  /\ hits' = [hits EXCEPT !["global"][c] = g.totalHits,
                                !["qr"][c] = IF toQr THEN q.totalHits ELSE @]
        /\ resetTime' = [resetTime EXCEPT !["global"][c] = g.resetTime,
                                          !["qr"][c] = IF toQr THEN q.resetTime ELSE @]
        /\ resp' = [variant |-> "A", route |-> route, client |-> c,
                    req |-> body,
                    totalHits |-> [global |-> g.totalHits,
                                   qr |-> IF toQr THEN q.totalHits ELSE 0]]
                   @@ r
        /\ UNCHANGED <<env, now, conc>>

PostGenerateQr(c, body, enc) == Request(c, "POST /generate-qr", body, enc)

GetHealth(c, body) == Request(c, "GET /health", body, "ok")

GetRoot(c, body) == Request(c, "GET /", body, "ok")

(***************************************************************************)
(* Variant B: the Hono worker.                                             *)
(***************************************************************************)
ForbiddenText ==
    "Unauthorized access. This API can only be used from authorized applications."

MissingDataText == "Missing required \"data\" parameter"

InvalidEclText == "Invalid error correction level. Use L, M, Q, or H."

InvalidSizeText == "Invalid size. Must be between 50 and 1000 pixels."

\* The async handler of GET /qr; enc is what the QR library does with the
\* call: "ok" or "throw".
qr(query, enc) ==
    LET data  == query.data
        size  == parseInt(OrText(query.size, <<"3", "0", "0">>))
        ecl   == OrStr(query.ecl, "M")
        dark  == OrStr(query.dark, "#000000")
        light == OrStr(query.light, "#FFFFFF")
    IN  IF data = None \/ data[1] = ""
        THEN Reply(400, TEXT, << <<"text", MissingDataText>> >>, "qr")
        ELSE IF ecl \notin {"L", "M", "Q", "H"}
        THEN Reply(400, TEXT, << <<"text", InvalidEclText>> >>, "qr")
        ELSE IF size = None \/ size[1] < 50 \/ size[1] > 1000
        THEN Reply(400, TEXT, << <<"text", InvalidSizeText>> >>, "qr")
        ELSE LET call == [fn |-> "new QRCode",
                          options |-> [content |-> data[1], ecl |-> ecl,
                                       padding |-> 1, width |-> size[1]]]
                 done == IF enc = "throw"
                         THEN Reply(500, TEXT,
                                    << <<"text", "Error generating QR code: ", EncoderErrorText>> >>,
                                    "qr")
                         ELSE Reply(200, "image/svg+xml", << <<"image", "svg">> >>, "qr")
             IN  [done EXCEPT !.encoder = <<call>>, !.threw = (enc = "throw")]

\* Mutant: domain.trim() && is dropped, so a blank entry matches.
referrerCheck_noBlankSkip(referer, query, enc) ==
    LET referrer       == OrText(referer, <<>>)
        allowedDomains == Split(OrText(env.ALLOWED_DOMAINS, <<>>))
        isAllowed      == \E i \in 1..Len(allowedDomains) :
                              Includes(referrer, Trim(allowedDomains[i]))
    IN  IF env.ALLOWED_DOMAINS = None \/ env.ALLOWED_DOMAINS[1] = <<>>
           \/ Len(allowedDomains) = 0
        THEN Via("referrerCheck", qr(query, enc))
        ELSE IF ~isAllowed
        THEN Reply(403, TEXT, << <<"text", ForbiddenText>> >>, "referrerCheck")
        ELSE Via("referrerCheck", qr(query, enc))

\* The middleware of GET /qr; referer is the Referer header.
referrerCheck(referer, query, enc) ==
    LET referrer       == OrText(referer, <<>>)
        allowedDomains == Split(OrText(env.ALLOWED_DOMAINS, <<>>))
        isAllowed      == \E i \in 1..Len(allowedDomains) :
                              /\ Trim(allowedDomains[i]) # <<>>
                              /\ Includes(referrer, Trim(allowedDomains[i]))
    IN  IF env.ALLOWED_DOMAINS = None \/ env.ALLOWED_DOMAINS[1] = <<>>
           \/ Len(allowedDomains) = 0
        THEN Via("referrerCheck", qr(query, enc))
        ELSE IF ~isAllowed
        THEN Reply(403, TEXT, << <<"text", ForbiddenText>> >>, "referrerCheck")
        ELSE Via("referrerCheck", qr(query, enc))

\* app.get('/health') of the worker
healthB == Reply(200, JSON, << <<"status", "ok">> >>, "health")

\* One request to the worker.
RequestB(route, referer, query, enc) ==
    /\ resp' = [variant |-> "B", route |-> route, client |-> "",
                req |-> [referer |-> referer, query |-> query],
                totalHits |-> [global |-> 0, qr |-> 0]]
               @@ (IF route = "GET /qr" THEN referrerCheck(referer, query, enc) ELSE healthB)
    /\ UNCHANGED <<env, now, hits, resetTime, conc>>

GetQr(referer, query, enc) == RequestB("GET /qr", referer, query, enc)

GetHealthB(referer) == RequestB("GET /health", referer, <<>>, "ok")

(***************************************************************************)
(* The clock.                                                              *)
(***************************************************************************)
\* One tick: five minutes.
TickMs == 5 * 60 * 1000

Tick ==
    /\ now < MaxTicks * TickMs
    /\ now' = now + TickMs
    /\ UNCHANGED <<env, hits, resetTime, resp, conc>>

(***************************************************************************)
(* Inputs.                                                                 *)
(***************************************************************************)
Client1 == "10.0.0.1"

Client2 == "10.0.0.2"

Clients == {Client1, Client2}

Secret == "s3cret"

EncOutcomes == {"ok", "throw"}

NoBody ==
    [token |-> None, data |-> None, errorCorrectionLevel |-> None,
     darkColor |-> None, lightColor |-> None, width |-> None]

\* JSON bodies: every token and data case with the other fields omitted, and
\* every combination of the optional fields with a good token and data.
Bodies ==
    {[NoBody EXCEPT !.token = t, !.data = d] :
        t \in Opt({"", "wrong", Secret, "this_is_a_dev_token"}),
        d \in Opt({"", "hello"})}
    \cup
    {[token |-> Some(t), data |-> Some("hello"), errorCorrectionLevel |-> e,
      darkColor |-> dk, lightColor |-> lt, width |-> w] :
        t \in {Secret, "this_is_a_dev_token"},
        e \in Opt({"", "H"}), dk \in Opt({"#ff0000"}),
        lt \in Opt({"#00ff00"}), w \in Opt({0, 500})}

\* The bodies the specifications that count requests use.
FewBodies ==
    {[NoBody EXCEPT !.token = t, !.data = d] :
        t \in Opt({Secret}), d \in Opt({"hello"})}

NoQuery == [data |-> None, size |-> None, ecl |-> None, dark |-> None, light |-> None]

Sizes ==
    {<<>>, <<"5", "0">>, <<"4", "9">>, <<"1", "0", "0", "0">>, <<"1", "0", "0", "1">>,
     <<"2", "0", "0", "0">>, <<"a", "b", "c">>, <<"6", "0", "p", "x">>,
     <<"-", "6", "0">>, <<"1", "e", "3">>, <<" ", "7", "5">>}

Queries ==
    {[NoQuery EXCEPT !.data = d, !.ecl = e, !.size = z] :
        d \in Opt({"", "hello"}), e \in Opt({"", "H", "X", "l"}), z \in Opt(Sizes)}
    \cup
    {[NoQuery EXCEPT !.data = Some("hello"), !.dark = dk, !.light = lt] :
        dk \in Opt({"#ff0000"}), lt \in Opt({"#00ff00"})}

Referers ==
    Opt({<<>>, <<"a">>, <<"x", "a", "y">>, <<"b">>, <<"c">>, <<" ">>})

\* The requests to GET /qr: every referer with the smallest queries, and
\* every query with no referer and with one.
QrRequests ==
    {[referer |-> r, query |-> q] :
        r \in Referers, q \in {NoQuery, [NoQuery EXCEPT !.data = Some("hello")]}}
    \cup
    {[referer |-> r, query |-> q] : r \in {None, Some(<<"a">>)}, q \in Queries}

DomainLists ==
    Opt({<<>>, <<"a">>, <<"a", ",", "b">>, <<" ", "a", " ">>, <<",">>, <<" ">>,
         <<"a", ",", " ">>, <<"a", ",", ",", "b">>})

NodeEnvs == Opt({"development", "production"})

BaseEnv ==
    [API_TOKEN |-> Some(Secret), NODE_ENV |-> Some("production"),
     ALLOWED_DOMAINS |-> None]

\* Deployments: the token and the mode varied together, and the allow-list
\* varied in production mode and in development mode.
Envs ==
    {[BaseEnv EXCEPT !.API_TOKEN = t, !.NODE_ENV = n] :
        t \in Opt({"", Secret}), n \in NodeEnvs}
    \cup
    {[BaseEnv EXCEPT !.ALLOWED_DOMAINS = d, !.NODE_ENV = n] :
        d \in DomainLists, n \in {Some("production"), Some("development")}}

(***************************************************************************)
(* Variant A, one middleware at a time.  Express runs a request's chain as *)
(* callbacks on the event loop: a limiter awaits its store, the body       *)
(* parser awaits the request stream, the handler awaits QRCode.toBuffer.   *)
(* Between two awaits a callback runs alone; at an await the callbacks of  *)
(* other requests, and the clock, may run.                                 *)
(***************************************************************************)
Ticks == 0 .. MaxTicks

NoResult ==
    [status |-> 0, ctype |-> "", body |-> <<>>, stages |-> <<>>,
     encoder |-> <<>>, threw |-> FALSE, sent |-> 0]

\* flight is the bag of the requests on open connections: what each asks
\* for, the stage it waits at (pc) and the response written for it (res).
OneFlight(f) == SetToBag({f})

\* The request f has moved on and is now f2.
Moves(f, f2) == flight' = (flight (-) OneFlight(f)) (+) OneFlight(f2)

\* The limiter of a scope has met one more request of the client.
Met(scope, c) ==
    [seen EXCEPT ![scope][c][now \div TickMs] = @ + 1]

\* A request arrives; its first middleware is the global limiter.
Arrive(c, route, body) ==
    /\ BagCardinality(flight) < MaxInflight
    /\ arrived < MaxArrivals
    /\ flight' = flight (+) OneFlight([pc |-> "limiter", client |-> c,
                                       route |-> route, body |-> body,
                                       res |-> NoResult])
    /\ arrived' = arrived + 1
    /\ UNCHANGED <<env, now, hits, resetTime, resp, seen>>

\* app.use(limiter): the store counts the request, then the limiter answers
\* 429 or calls next().  A request with no body to read passes
\* bodyParser.json() in the same callback and reaches its handler.
LimiterStep(f) ==
    LET g == Increment("global", f.client)
    IN  /\ f.pc = "limiter"
        /\ hits' = [hits EXCEPT !["global"][f.client] = g.totalHits]
        /\ resetTime' = [resetTime EXCEPT !["global"][f.client] = g.resetTime]
        /\ seen' = Met("global", f.client)
        /\ Moves(f, IF ~limiter(g.totalHits)
                    THEN [f EXCEPT !.pc = "done",
                                   !.res = Reply(429, JSON, <<TooManyRequests>>,
                                                 "limiter")]
                    ELSE IF f.route = "POST /generate-qr"
                    THEN [f EXCEPT !.pc = "bodyParser"]
                    ELSE [f EXCEPT !.pc = "done",
                                   !.res = Via("limiter", Via("bodyParser",
                                               Route(f.route, f.body, "ok", TRUE)))])
        /\ UNCHANGED <<env, now, resp, arrived>>

\* app.use(bodyParser.json()): the body has been read and parsed.
BodyParserStep(f) ==
    /\ f.pc = "bodyParser"
    /\ Moves(f, [f EXCEPT !.pc = "qrLimiter"])
    /\ UNCHANGED <<env, now, hits, resetTime, resp, seen, arrived>>

\* qrLimiter, and in the same callback authenticateRequest and the handler
\* up to its await; enc is what QRCode.toBuffer will settle with.
QrLimiterStep(f, enc) ==
    LET q == Increment("qr", f.client)
        r == Via("limiter", Via("bodyParser",
                 Route(f.route, f.body, enc, qrLimiter(q.totalHits))))
    IN  /\ f.pc = "qrLimiter"
        /\ hits' = [hits EXCEPT !["qr"][f.client] = q.totalHits]
        /\ resetTime' = [resetTime EXCEPT !["qr"][f.client] = q.resetTime]
        /\ seen' = Met("qr", f.client)
        /\ Moves(f, [f EXCEPT !.pc = IF r.encoder # <<>> THEN "toBuffer" ELSE "done",
                              !.res = r])
        /\ UNCHANGED <<env, now, resp, arrived>>

\* await QRCode.toBuffer(data, options) settles; the handler writes the
\* image or calls next(error).
ToBufferSettles(f) ==
    /\ f.pc = "toBuffer"
    /\ Moves(f, [f EXCEPT !.pc = "done"])
    /\ UNCHANGED <<env, now, hits, resetTime, resp, seen, arrived>>

\* The response has been written and the connection is closed.
Close(f) ==
    /\ f.pc = "done"
    /\ flight' = flight (-) OneFlight(f)
    /\ UNCHANGED <<env, now, hits, resetTime, resp, seen, arrived>>

(***************************************************************************)
(* Specifications.                                                         *)
(***************************************************************************)
NoResp ==
    [variant |-> "none", route |-> "", client |-> "", req |-> <<>>,
     totalHits |-> [global |-> 0, qr |-> 0],
     status |-> 0, ctype |-> "", body |-> <<>>, stages |-> <<>>,
     encoder |-> <<>>, threw |-> FALSE, sent |-> 0]

InitStore ==
    /\ now = 0
    /\ hits = [s \in Scopes |-> [c \in Clients |-> 0]]
    /\ resetTime = [s \in Scopes |-> [c \in Clients |-> 0]]
    /\ resp = NoResp
    /\ flight = EmptyBag
    /\ seen = [s \in Scopes |-> [c \in Clients |-> [t \in Ticks |-> 0]]]
    /\ arrived = 0

Init == env \in Envs /\ InitStore

\* The hits counted for the client in the window that is open now.
Current(scope, c) == IF resetTime[scope][c] <= now THEN 0 ELSE hits[scope][c]

\* The response has reached the caller and the connection is closed.
Deliver ==
    /\ resp # NoResp
    /\ resp' = NoResp
    /\ UNCHANGED <<env, now, hits, resetTime, conc>>

\* No request is being handled: handlers run one at a time to completion.
Idle == resp = NoResp

\* Spec: both services, every request shape, a few requests per window.
Next ==
    \/ \E b \in Bodies, e \in EncOutcomes :
           Idle /\ Current("global", Client1) < MaxReq /\ PostGenerateQr(Client1, b, e)
    \/ \E b \in FewBodies :
           Idle /\ Current("global", Client1) < MaxReq /\ GetHealth(Client1, b)
    \/ \E b \in FewBodies :
           Idle /\ Current("global", Client1) < MaxReq /\ GetRoot(Client1, b)
    \/ \E r \in QrRequests, e \in EncOutcomes : Idle /\ GetQr(r.referer, r.query, e)
    \/ \E r \in Referers : Idle /\ GetHealthB(r)
    \/ Deliver

Spec == Init /\ [][Next]_vars

(***************************************************************************)
(* SpecRate: the Express service under load from one client, with the      *)
(* limits of the code: requests are counted up to MaxOver beyond each max, *)
(* and the clock runs past the end of both windows.                        *)
(***************************************************************************)
InitRate == env = BaseEnv /\ InitStore

\* The client still sends: it is not yet MaxOver requests over the limit.
SendsAny(c) == Current("global", c) < limiterMax + MaxOver

SendsQr(c) == SendsAny(c) /\ Current("qr", c) < qrLimiterMax + MaxOver

NextRate ==
    \/ \E b \in FewBodies, e \in EncOutcomes :
           Idle /\ SendsQr(Client1) /\ PostGenerateQr(Client1, b, e)
    \/ \E b \in FewBodies : Idle /\ SendsAny(Client1) /\ GetHealth(Client1, b)
    \/ Idle /\ SendsAny(Client1) /\ GetRoot(Client1, NoBody)
    \/ Idle /\ Tick
    \/ Deliver

SpecRate == InitRate /\ [][NextRate]_vars

(***************************************************************************)
(* SpecPair: the Express service with two clients within one window; the   *)
(* second sends at most MaxOther requests.                                 *)
(***************************************************************************)
PairBodies == {NoBody, [NoBody EXCEPT !.token = Some(Secret), !.data = Some("hello")]}

SendsPair(c) ==
    IF c = Client1 THEN SendsAny(c) ELSE Current("global", c) < MaxOther

NextPair ==
    \/ \E c \in Clients, b \in PairBodies :
           /\ Idle /\ SendsPair(c) /\ Current("qr", c) < qrLimiterMax + MaxOver
           /\ PostGenerateQr(c, b, "ok")
    \/ \E c \in Clients : Idle /\ SendsPair(c) /\ GetHealth(c, NoBody)
    \/ Deliver

SpecPair == InitRate /\ [][NextPair]_vars

(***************************************************************************)
(* SpecConc: the Express service with MaxInflight connections of one       *)
(* client open at once, their callbacks and the clock interleaved.  The    *)
(* service starts empty, or just after the client has sent, one request at *)
(* a time, as many requests as a limiter admits in a window.               *)
(***************************************************************************)
\* Requests already counted at time 0: <<by limiter, by qrLimiter>>.
Loads ==
    { <<0, 0>>,
      <<qrLimiterMax, qrLimiterMax>>,
      <<limiterMax, 0>> }

Load(scope, load) == IF scope = "global" THEN load[1] ELSE load[2]

InitConc ==
    /\ env = BaseEnv
    /\ now = 0
    /\ resp = NoResp
    /\ flight = EmptyBag
    /\ arrived = 0
    /\ \E load \in Loads :
           /\ hits = [s \in Scopes |-> [c \in Clients |->
                         IF c = Client1 THEN Load(s, load) ELSE 0]]
           /\ resetTime = [s \in Scopes |-> [c \in Clients |->
                         IF c = Client1 /\ Load(s, load) > 0 THEN WindowMs(s) ELSE 0]]
           /\ seen = [s \in Scopes |-> [c \in Clients |-> [t \in Ticks |->
                         IF c = Client1 /\ t = 0 THEN Load(s, load) ELSE 0]]]

\* No token; a token and no data; a token and data.
ConcBodies ==
    {NoBody,
     [NoBody EXCEPT !.token = Some(Secret)],
     [NoBody EXCEPT !.token = Some(Secret), !.data = Some("hello")]}

\* Some request is on its way through the chain.
InFlight == flight # EmptyBag

NextConc ==
    \/ \E b \in ConcBodies : Arrive(Client1, "POST /generate-qr", b)
    \/ Arrive(Client1, "GET /health", NoBody)
    \/ \E f \in BagToSet(flight) : LimiterStep(f)
    \/ \E f \in BagToSet(flight) : BodyParserStep(f)
    \/ \E f \in BagToSet(flight) : QrLimiterStep(f, "ok")
    \/ \E f \in BagToSet(flight) : ToBufferSettles(f)
    \/ \E f \in BagToSet(flight) : Close(f)
    \/ InFlight /\ Tick

SpecConc == InitConc /\ [][NextConc]_vars

(***************************************************************************)
(* Properties.  They speak of resp, the request handled last.              *)
(***************************************************************************)
IsPostGenerateQr == resp.variant = "A" /\ resp.route = "POST /generate-qr"

IsGetQr == resp.variant = "B" /\ resp.route = "GET /qr"

Ran(stage) == \E i \in 1..Len(resp.stages) : resp.stages[i] = stage

\* Both limiters counted the request within their budgets.
PassedBothLimiters ==
    /\ resp.totalHits.global \in 1..limiterMax
    /\ resp.totalHits.qr \in 1..qrLimiterMax

\* The token is missing, empty, or not the configured secret.
TokenRejected(token) == token = None \/ token[1] = "" \/ token[1] # API_TOKEN

DataMissing(data) == data = None \/ data[1] = ""

\* The domains of the allow-list: its comma-separated entries, trimmed, the
\* blank ones left out.
ConfiguredDomains ==
    LET entries == Split(OrText(env.ALLOWED_DOMAINS, <<>>))
    IN  {Trim(entries[i]) : i \in 1..Len(entries)} \ {<<>>}

AllowListConfigured == env.ALLOWED_DOMAINS # None /\ env.ALLOWED_DOMAINS # Some(<<>>)

RefererAdmitted(referer) ==
    \/ ~AllowListConfigured
    \/ \E d \in ConfiguredDomains : Includes(OrText(referer, <<>>), d)

\* C1: in Variant A a POST /generate-qr that passes both rate limiters with a
\* token that is missing, empty or not the configured secret gets 401 with
\* the fixed Unauthorized body, whatever API_TOKEN is in the environment
\* (unset and empty included), and the encoder is not invoked.
C1_Unauthorized ==
    (IsPostGenerateQr /\ PassedBothLimiters /\ TokenRejected(resp.req.token))
    => /\ resp.status = 401
       /\ resp.ctype = JSON
       /\ resp.body = <<UnauthorizedMsg>>
       /\ resp.encoder = <<>>
       /\ resp.sent = 1

\* An empty token against an empty API_TOKEN in the environment is rejected.
C1_Witness ==
    /\ IsPostGenerateQr /\ PassedBothLimiters
    /\ env.API_TOKEN = Some("") /\ resp.req.token = Some("")
    /\ resp.status = 401

\* C6 as stated: every request to the generation route whose data is missing
\* or empty gets 400 with no encoder call, the rate limiter having counted it.
C6_AsStated ==
    /\ (IsPostGenerateQr /\ DataMissing(resp.req.data))
       => /\ resp.status = 400
          /\ resp.encoder = <<>>
          /\ hits["global"][resp.client] >= 1
    /\ (IsGetQr /\ DataMissing(resp.req.query.data))
       => /\ resp.status = 400
          /\ resp.encoder = <<>>

\* C6 amended: a request to the generation route whose data is missing or
\* empty, and which the rate limiters and the authenticator admit (Variant A:
\* within both budgets, the configured token; Variant B: an admitted
\* referrer), gets 400 with the missing-data message and no encoder call; in
\* Variant A both counters of the client have counted the request.
C6_MissingData ==
    /\ (/\ IsPostGenerateQr /\ DataMissing(resp.req.data)
        /\ PassedBothLimiters /\ ~TokenRejected(resp.req.token))
       => /\ resp.status = 400
          /\ resp.body = <<NoDataMsg>>
          /\ resp.encoder = <<>>
          /\ hits["global"][resp.client] = resp.totalHits.global
          /\ hits["qr"][resp.client] = resp.totalHits.qr
    /\ (/\ IsGetQr /\ DataMissing(resp.req.query.data)
        /\ RefererAdmitted(resp.req.referer))
       => /\ resp.status = 400
          /\ resp.body = << <<"text", MissingDataText>> >>
          /\ resp.encoder = <<>>

\* An authenticated POST with empty data got 400 after both counters counted it.
C6_Witness ==
    /\ IsPostGenerateQr /\ resp.req.data = Some("")
    /\ ~TokenRejected(resp.req.token)
    /\ resp.status = 400
    /\ hits["global"][resp.client] >= 1 /\ hits["qr"][resp.client] >= 1

\* The size text is numeric: decimal digits, white space around them allowed.
IsNumeral(s) ==
    Trim(s) # <<>> /\ \A i \in 1..Len(Trim(s)) : DigitValue(Trim(s)[i], 10) >= 0

NumeralValue(s) == ParseDigits(Trim(s), 10, 0, FALSE)[1]

\* The size the claim speaks of is acceptable: a numeral within [50, 1000].
SizeAcceptable(s) == IsNumeral(s) /\ NumeralValue(s) >= 50 /\ NumeralValue(s) <= 1000

\* C7: in Variant B every admitted GET /qr is checked in the order data
\* non-empty, ecl in {L,M,Q,H}, size in [50,1000], and the first failing check
\* alone decides the 400: sizes 50 and 1000 pass, and a size below 50, above
\* 1000 or not numeric gets "Invalid size"; the encoder is invoked only if
\* all three checks pass.
C7_Validation ==
    (IsGetQr /\ RefererAdmitted(resp.req.referer))
    => LET q      == resp.req.query
           ecl    == OrStr(q.ecl, "M")
           size   == OrText(q.size, <<"3", "0", "0">>)
           eclOk  == ecl \in {"L", "M", "Q", "H"}
           text   == IF DataMissing(q.data) THEN MissingDataText
                     ELSE IF ~eclOk THEN InvalidEclText
                     ELSE InvalidSizeText
           passes == ~DataMissing(q.data) /\ eclOk /\ SizeAcceptable(size)
       IN  /\ ~passes => /\ resp.status = 400
                         /\ resp.body = << <<"text", text>> >>
                         /\ resp.encoder = <<>>
           /\ passes => Len(resp.encoder) = 1

\* C8: in Variant B, with no allow-list configured (ALLOWED_DOMAINS unset or
\* empty) every GET /qr passes referrerCheck; otherwise it passes if and only
\* if its Referer contains one of the configured domains, and every other
\* request (one without a Referer included) gets 403 with the fixed message
\* and reaches neither the handler nor the encoder; blank and white-space
\* entries of the list are no domains.
C8_ReferrerCheck ==
    IsGetQr
    => /\ RefererAdmitted(resp.req.referer)
          => resp.status # 403 /\ resp.stages = <<"referrerCheck", "qr">>
       /\ ~RefererAdmitted(resp.req.referer)
          => /\ resp.status = 403
             /\ resp.body = << <<"text", ForbiddenText>> >>
             /\ resp.stages = <<"referrerCheck">>
             /\ resp.encoder = <<>>
             /\ resp.sent = 1

\* A Referer of white space is not admitted by a list with a blank entry.
C8_Witness ==
    /\ IsGetQr
    /\ env.ALLOWED_DOMAINS = Some(<<"a", ",", " ">>)
    /\ resp.req.referer = Some(<<" ">>)
    /\ resp.status = 403

\* The colors the encoder draws with: those of the options, or the QR
\* library's own defaults when the options name none.
DarkUsed(call) ==
    IF "color" \in DOMAIN call.options THEN call.options.color.dark ELSE "#000000"

LightUsed(call) ==
    IF "color" \in DOMAIN call.options THEN call.options.color.light ELSE "#ffffff"

\* C9: for every valid, admitted request of either variant the encoder is
\* invoked exactly once with the request's content, error-correction level,
\* size and dark and light colors, the defaults M, 300, black and white
\* standing for what the caller omitted; the content type is image/png in
\* Variant A and image/svg+xml in Variant B.
C9_EncoderParameters ==
    /\ (/\ IsPostGenerateQr /\ PassedBothLimiters
        /\ ~TokenRejected(resp.req.token) /\ ~DataMissing(resp.req.data))
       => /\ Len(resp.encoder) = 1
          /\ LET call == resp.encoder[1]
             IN  /\ call.content = resp.req.data[1]
                 /\ call.options.errorCorrectionLevel
                       = OrStr(resp.req.errorCorrectionLevel, "M")
                 /\ call.options.width = OrNum(resp.req.width, 300)
                 /\ DarkUsed(call) = OrStr(resp.req.darkColor, "#000000")
                 /\ LightUsed(call) = OrStr(resp.req.lightColor, "#ffffff")
          /\ ~resp.threw => resp.status = 200 /\ resp.ctype = "image/png"
    /\ (/\ IsGetQr /\ RefererAdmitted(resp.req.referer)
        /\ ~DataMissing(resp.req.query.data)
        /\ OrStr(resp.req.query.ecl, "M") \in {"L", "M", "Q", "H"}
        /\ SizeAcceptable(OrText(resp.req.query.size, <<"3", "0", "0">>)))
       => /\ Len(resp.encoder) = 1
          /\ LET call == resp.encoder[1]
                 q    == resp.req.query
             IN  /\ call.options.content = q.data[1]
                 /\ call.options.ecl = OrStr(q.ecl, "M")
                 /\ call.options.width = NumeralValue(OrText(q.size, <<"3", "0", "0">>))
                 /\ DarkUsed(call) = OrStr(q.dark, "#000000")
                 /\ LightUsed(call) = OrStr(q.light, "#ffffff")
          /\ ~resp.threw => resp.status = 200 /\ resp.ctype = "image/svg+xml"

BodyHasText(text) ==
    \E i \in 1..Len(resp.body) :
        \E j \in 2..Len(resp.body[i]) : resp.body[i][j] = text

\* C10: when the encoder throws, the request gets one response, a 500, whose
\* body never holds the exception's text in production mode, in every
\* variant.
C10_GenericFailure ==
    resp.threw
    => /\ resp.status = 500
       /\ resp.sent = 1
       /\ env.NODE_ENV = Some("production") => ~BodyHasText(EncoderErrorText)

IsHealthA == resp.variant = "A" /\ resp.route = "GET /health"

HealthOk == resp.status = 200 /\ resp.ctype = JSON /\ resp.body = << <<"status", "ok">> >>

RequestStep == resp = NoResp /\ resp' # NoResp /\ resp'.variant = "A"

\* The count a scope gives the client's next request: one more than the
\* hits of the open window, or 1 when the window has ended.
NextCount(scope, c) ==
    IF resetTime[scope][c] > now THEN hits[scope][c] + 1 ELSE 1

\* C3: fixed windows per client.  A request is counted in the scope's open
\* window; the first N of a window are admitted by the scope and request
\* N + 1 (and any later one) gets 429 with the scope's JSON error body, N
\* being 100 per 15 minutes for the global scope and 30 per 5 minutes for the
\* generation scope; once the window has run its length the count starts
\* again at 1, in a new window of the same length, and the request is
\* admitted.
C3_FixedWindow ==
    [][RequestStep =>
        LET c == resp'.client
            g == NextCount("global", c)
            q == NextCount("qr", c)
        IN  /\ resp'.totalHits.global = g /\ hits'["global"][c] = g
            /\ g = 1 => resetTime'["global"][c] = now + 15 * 60 * 1000
            /\ g > 1 => resetTime'["global"][c] = resetTime["global"][c]
            /\ g <= 100 => Len(resp'.stages) > 1 /\ resp'.stages[1] = "limiter"
            /\ g > 100 => /\ resp'.status = 429 /\ resp'.ctype = JSON
                          /\ resp'.body = <<TooManyRequests>>
                          /\ resp'.stages = <<"limiter">>
            /\ (g <= 100 /\ resp'.route = "POST /generate-qr")
               => /\ resp'.totalHits.qr = q /\ hits'["qr"][c] = q
                  /\ q = 1 => resetTime'["qr"][c] = now + 5 * 60 * 1000
                  /\ q > 1 => resetTime'["qr"][c] = resetTime["qr"][c]
                  /\ q <= 30 => Len(resp'.stages) > 3 /\ resp'.stages[3] = "qrLimiter"
                  /\ q > 30 => /\ resp'.status = 429 /\ resp'.ctype = JSON
                               /\ resp'.body = <<GenerationLimitReached>>
                               /\ resp'.stages = <<"limiter", "bodyParser", "qrLimiter">>
    ]_vars

\* Request 101 of a global window was rejected.
C3_Witness ==
    /\ resp.variant = "A" /\ resp.totalHits.global = 101
    /\ resp.status = 429 /\ resp.body = <<TooManyRequests>>

\* After the first window had run its length a request was counted as the
\* first of a new window and admitted.
C3_WitnessNewWindow ==
    /\ resp.variant = "A" /\ resp.totalHits.global = 1 /\ resp.status = 200
    /\ now >= 15 * 60 * 1000

StageRan(r, stage) == \E i \in 1..Len(r.stages) : r.stages[i] = stage

\* C4: Variant A counts per client and per scope.  The global scope counts
\* the requests to every route, the generation scope only POST /generate-qr;
\* a POST /generate-qr reaches authentication only within both budgets (100
\* and 30), and otherwise gets 429 with neither authentication nor the
\* encoder run; a request of one client changes no counter of another, and
\* its admission depends on its own counters alone.
C4_TwoScopesPerClient ==
    [][RequestStep =>
        LET c   == resp'.client
            gen == resp'.route = "POST /generate-qr"
            g   == NextCount("global", c)
            q   == NextCount("qr", c)
        IN  /\ \A s \in Scopes, d \in Clients \ {c} :
                   hits'[s][d] = hits[s][d] /\ resetTime'[s][d] = resetTime[s][d]
            /\ hits'["global"][c] = g
            /\ ~gen => hits'["qr"][c] = hits["qr"][c]
            /\ (gen /\ g <= 100) => hits'["qr"][c] = q
            /\ gen => /\ StageRan(resp', "authenticateRequest") <=> (g <= 100 /\ q <= 30)
                      /\ (g > 100 \/ q > 30)
                         => resp'.status = 429 /\ resp'.encoder = <<>>
            /\ ~gen => (resp'.status = 429 <=> g > 100)
    ]_vars

\* The second client is admitted while the first is over its global budget.
C4_Witness ==
    /\ Current("global", Client1) > 100
    /\ resp.variant = "A" /\ resp.client = Client2
    /\ resp.route = "POST /generate-qr" /\ resp.status = 200

FlightsWhere(Test(_)) ==
    LET S == {f \in BagToSet(flight) : Test(f)}
    IN  BagCardinality([f \in S |-> flight[f]])

\* Requests of the client about to be counted by the scope's limiter.
Waiting(scope, c) ==
    LET AtLimiter(f) ==
            /\ f.client = c
            /\ f.pc = IF scope = "global" THEN "limiter" ELSE "qrLimiter"
    IN  FlightsWhere(AtLimiter)

\* Requests of the client in flight that the scope's limiter answered 429.
Rejected(scope, c) ==
    LET Answered(f) ==
            /\ f.client = c /\ f.pc = "done" /\ f.res.status = 429
            /\ f.res.body = IF scope = "global" THEN <<TooManyRequests>>
                                                ELSE <<GenerationLimitReached>>
    IN  FlightsWhere(Answered)

Budget(scope) == IF scope = "global" THEN 100 ELSE 30

WindowLength(scope) == IF scope = "global" THEN 15 * 60 * 1000 ELSE 5 * 60 * 1000

\* The requests the scope's limiter met from the client at the ticks in T:
\* one pair <<t, k>> for the k-th request met at tick t.
SeenAt(scope, c, T) ==
    Cardinality(UNION {{t} \X (1 .. seen[scope][c][t]) : t \in T})

\* The counter is the number of requests met since its window began.
Accounted(scope, c) ==
    LET began == resetTime[scope][c] - WindowLength(scope)
    IN  hits[scope][c] = SeenAt(scope, c, {t \in Ticks : t * TickMs >= began})

\* C11: counter accounting under interleaving.  Whatever the order in which
\* the callbacks of concurrent requests and the clock run, a request that
\* passes a limiter adds exactly one to that scope's counter for its client
\* (or starts a new window at 1 when the old one has ended, and then only
\* once), whether the limiter admits it or answers 429; the limiter answers
\* 429 exactly when the count is over the budget, so a client over budget
\* stays rejected until the window ends; every counter equals the number of
\* requests its limiter has met since the window began; and no other step
\* (body parsing, the token check, validation, encoding, the error handler,
\* closing the connection, the clock) changes a counter or a window.
C11_CounterAccounting ==
    [][\A s \in Scopes, c \in Clients :
          /\ Accounted(s, c)
          /\ Accounted(s, c)'
          /\ IF Waiting(s, c)' < Waiting(s, c)
             THEN /\ Waiting(s, c)' = Waiting(s, c) - 1
                  /\ hits'[s][c] = NextCount(s, c)
                  /\ resetTime'[s][c] = IF resetTime[s][c] > now
                                        THEN resetTime[s][c]
                                        ELSE now + WindowLength(s)
                  /\ Rejected(s, c)' = Rejected(s, c)
                                       + IF NextCount(s, c) > Budget(s) THEN 1 ELSE 0
             ELSE /\ hits'[s][c] = hits[s][c]
                  /\ resetTime'[s][c] = resetTime[s][c]
    ]_vars

\* Two requests of one client were open at once, both past the global
\* limiter and both answered 429 by the generation limiter, which counted
\* them as requests 31 and 32 of its window.
C11_Witness ==
    /\ Rejected("qr", Client1) = 2
    /\ hits["qr"][Client1] = 32
    /\ resetTime["qr"][Client1] > now

\* Two requests waited at the generation limiter while its window ended;
\* the first to run began a new window and the second was counted in it.
C11_WitnessWindowEnd ==
    /\ seen["qr"][Client1][0] = 30 /\ seen["qr"][Client1][1] = 2
    /\ hits["qr"][Client1] = 2
    /\ resetTime["qr"][Client1] = 2 * TickMs
    /\ arrived = 2

====
